---- MODULE Spec2Model ----
(***************************************************************************)
(* A model of nvitop's input engine: the key lexer, the per-context key    *)
(* tries (KeyMaps), the live key parser (KeyBuffer) and the controller     *)
(* loop (Top), from src/nvitop/ui/keybinding.py and src/nvitop/ui/top.py.  *)
(*                                                                         *)
(* Python dictionaries are mutable objects shared by reference, so the     *)
(* tries live in a heap of numbered nodes; a value stored in a node is a   *)
(* leaf (an action handle) or a reference to another node.                 *)
(***************************************************************************)
EXTENDS Integers, Sequences, FiniteSets, TLC

VARIABLES
    heap,         \* node id -> dict (key -> value); the allocated dicts
    keymaps,      \* KeyMaps: context name -> root node id (0: no such context)
    used_keymap,  \* KeyMaps.used_keymap ("" is None)
    kb,           \* the KeyBuffer's fields
    top,          \* the controller: where its loop stands, what it has done
    edits,        \* the KeyMaps edits made as steps, each with how it ended
    setup,        \* the edits the bindings were set up with at construction
    last          \* what the last operation was and what it did (observation)

vars == <<heap, keymaps, used_keymap, kb, top, edits, setup, last>>

----------------------------------------------------------------------------
(* Key symbols                                                             *)

ANYKEY == 9001
PASSIVE_ACTION == 9002
ALT_KEY == 9003
QUANT_KEY == 9004
ESC == 27
DIGITS == 48..57

----------------------------------------------------------------------------
(* Values held by a dict slot, a pointer or a result                       *)

NoneV == [t |-> "none", a |-> "", id |-> 0]
Leaf(a) == [t |-> "leaf", a |-> a, id |-> 0]
Ref(n) == [t |-> "node", a |-> "", id |-> n]

IsDict(v) == v.t = "node"

EmptyNode == [x \in {} |-> NoneV]

Put(f, k, v) == [x \in DOMAIN f \cup {k} |-> IF x = k THEN v ELSE f[x]]

Del(f, k) == [x \in DOMAIN f \ {k} |-> f[x]]

\* The id a newly created dict gets: the smallest one not in use.
NewId(h) ==
    CHOOSE n \in 1..(Cardinality(DOMAIN h) + 1) :
        n \notin DOMAIN h /\ \A m \in 1..(n - 1) : m \in DOMAIN h

RECURSIVE Reach(_, _)
Reach(h, ids) ==
    LET nxt == ids \cup {h[i][k].id : <<i, k>> \in
                   {p \in ids \X UNION {DOMAIN h[j] : j \in ids} :
                        p[2] \in DOMAIN h[p[1]] /\ IsDict(h[p[1]][p[2]])}}
    IN IF nxt = ids THEN ids ELSE Reach(h, nxt)

\* Python frees a dict nothing refers to any more.
Collect(h, roots) == [i \in Reach(h, roots \cap DOMAIN h) |-> h[i]]

----------------------------------------------------------------------------
(* Key lexer.  A binding text is a sequence of one-character strings.      *)

KEY_DOWN == 258
KEY_UP == 259
KEY_LEFT == 260
KEY_RIGHT == 261
KEY_HOME == 262
KEY_BACKSPACE == 263
KEY_F0 == 264
KEY_DC == 330
KEY_IC == 331
KEY_NPAGE == 338
KEY_PPAGE == 339
KEY_BTAB == 353
KEY_END == 360
KEY_SDC == 383
DEL == 127
LF == 10
TAB == 9

\* The printable ASCII characters, chr(32) .. chr(126); "grave" stands for
\* chr(96), which the TLA+ lexer does not accept inside a string.
Ascii == <<
    " ", "!", "\"", "#", "$", "%", "&", "'", "(", ")", "*", "+", ",", "-", ".", "/",
    "0", "1", "2", "3", "4", "5", "6", "7", "8", "9", ":", ";", "<", "=", ">", "?",
    "@", "A", "B", "C", "D", "E", "F", "G", "H", "I", "J", "K", "L", "M", "N", "O",
    "P", "Q", "R", "S", "T", "U", "V", "W", "X", "Y", "Z", "[", "\\", "]", "^", "_",
    "grave", "a", "b", "c", "d", "e", "f", "g", "h", "i", "j", "k", "l", "m", "n", "o",
    "p", "q", "r", "s", "t", "u", "v", "w", "x", "y", "z", "{", "|", "}", "~" >>

Ord(c) == 31 + (CHOOSE i \in 1..Len(Ascii) : Ascii[i] = c)

Chr(n) == Ascii[n - 31]

OrdAll(s) == [i \in 1..Len(s) |-> Ord(s[i])]

\* str.lower() on ASCII text
Lower(c) == IF Ord(c) \in 65..90 THEN Chr(Ord(c) + 32) ELSE c

LowerAll(s) == [i \in 1..Len(s) |-> Lower(s[i])]

\* str.isdigit() on ASCII text
IsDigitStr(s) == Len(s) > 0 /\ \A i \in 1..Len(s) : Ord(s[i]) \in DIGITS

RECURSIVE IntOf(_)
IntOf(s) ==
    IF s = <<>> THEN 0
    ELSE 10 * IntOf(SubSeq(s, 1, Len(s) - 1)) + (Ord(s[Len(s)]) - 48)

RECURSIVE StrOf(_)
StrOf(n) ==
    IF n < 0 THEN <<"-">> \o StrOf(0 - n)
    ELSE IF n < 10 THEN <<Chr(48 + n)>>
    ELSE StrOf(n \div 10) \o <<Chr(48 + (n % 10))>>

BaseSpecialKeys == <<
    <<<<"b", "s">>, <<KEY_BACKSPACE>> >>,
    <<<<"b", "a", "c", "k", "s", "p", "a", "c", "e">>, <<KEY_BACKSPACE>> >>,
    <<<<"b", "a", "c", "k", "s", "p", "a", "c", "e", "2">>, <<DEL>> >>,
    <<<<"d", "e", "l", "e", "t", "e">>, <<KEY_DC>> >>,
    <<<<"s", "-", "d", "e", "l", "e", "t", "e">>, <<KEY_SDC>> >>,
    <<<<"i", "n", "s", "e", "r", "t">>, <<KEY_IC>> >>,
    <<<<"c", "r">>, <<LF>> >>,
    <<<<"e", "n", "t", "e", "r">>, <<LF>> >>,
    <<<<"r", "e", "t", "u", "r", "n">>, <<LF>> >>,
    <<<<"s", "p", "a", "c", "e">>, <<Ord(" ")>> >>,
    <<<<"e", "s", "c">>, <<ESC>> >>,
    <<<<"e", "s", "c", "a", "p", "e">>, <<ESC>> >>,
    <<<<"d", "o", "w", "n">>, <<KEY_DOWN>> >>,
    <<<<"u", "p">>, <<KEY_UP>> >>,
    <<<<"l", "e", "f", "t">>, <<KEY_LEFT>> >>,
    <<<<"r", "i", "g", "h", "t">>, <<KEY_RIGHT>> >>,
    <<<<"p", "a", "g", "e", "d", "o", "w", "n">>, <<KEY_NPAGE>> >>,
    <<<<"p", "a", "g", "e", "u", "p">>, <<KEY_PPAGE>> >>,
    <<<<"h", "o", "m", "e">>, <<KEY_HOME>> >>,
    <<<<"e", "n", "d">>, <<KEY_END>> >>,
    <<<<"t", "a", "b">>, <<TAB>> >>,
    <<<<"s", "-", "t", "a", "b">>, <<KEY_BTAB>> >>,
    <<<<"l", "t">>, <<Ord("<")>> >>,
    <<<<"g", "t">>, <<Ord(">")>> >> >>

AltChars == <<"a", "b", "c", "d", "e", "f", "g", "h", "i", "j", "k", "l", "m",
    "n", "o", "p", "q", "r", "s", "t", "u", "v", "w", "x", "y", "z", "A", "B",
    "C", "D", "E", "F", "G", "H", "I", "J", "K", "L", "M", "N", "O", "P", "Q",
    "R", "S", "T", "U", "V", "W", "X", "Y", "Z", "0", "1", "2", "3", "4", "5",
    "6", "7", "8", "9", "_", "!", "{", "}", "[", "]", ",", ".", "/">>

CtrlChars == <<"a", "b", "c", "d", "e", "f", "g", "h", "i", "j", "k", "l", "m",
    "n", "o", "p", "q", "r", "s", "t", "u", "v", "w", "x", "y", "z", "_">>

VERY_SPECIAL_KEYS == <<
    <<<<"a", "n", "y">>, <<ANYKEY>> >>,
    <<<<"a", "l", "t">>, <<ALT_KEY>> >>,
    <<<<"b", "g">>, <<PASSIVE_ACTION>> >>,
    <<<<"a", "l", "l", "o", "w", "_", "q", "u", "a", "n", "t", "i", "f", "i",
        "e", "r", "s">>, <<QUANT_KEY>> >> >>

\* SPECIAL_KEYS after special_keys_init() and the update with the very
\* special keys, as the list of its (name, keys) items in insertion order.
SPECIAL_KEYS ==
    BaseSpecialKeys
    \o [i \in 1..Len(BaseSpecialKeys) |->
            << <<"a", "-">> \o BaseSpecialKeys[i][1],
               <<ALT_KEY>> \o BaseSpecialKeys[i][2] >>]
    \o [i \in 1..Len(AltChars) |->
            << <<"a", "-", AltChars[i]>>, <<ALT_KEY, Ord(AltChars[i])>> >>]
    \o [i \in 1..Len(CtrlChars) |->
            << <<"c", "-", CtrlChars[i]>>, <<Ord(CtrlChars[i]) - 96>> >>]
    \o << << <<"c", "-", "s", "p", "a", "c", "e">>, <<0>> >> >>
    \o [i \in 1..64 |-> << <<"f">> \o StrOf(i - 1), <<KEY_F0 + (i - 1)>> >>]
    \o VERY_SPECIAL_KEYS

SpecialNames == {SPECIAL_KEYS[i][1] : i \in 1..Len(SPECIAL_KEYS)}

SpecialKey(name) ==
    SPECIAL_KEYS[CHOOSE i \in 1..Len(SPECIAL_KEYS) : SPECIAL_KEYS[i][1] = name][2]

\* What a closed bracket <content> yields.
BracketKeys(content) ==
    LET lower == LowerAll(content)
        string == IF Len(content) = 3 /\ lower[1] \in {"a", "c"} /\ lower[2] = "-"
                  THEN <<lower[1], "-", content[3]>>
                  ELSE lower
    IN IF string \in SpecialNames THEN SpecialKey(string)
       ELSE IF IsDigitStr(string) THEN <<IntOf(string)>>
       ELSE <<Ord("<")>> \o OrdAll(content) \o <<Ord(">")>>

RECURSIVE ParseFrom(_, _, _, _)
ParseFrom(text, i, in_brackets, bracket_content) ==
    IF i > Len(text)
    THEN IF in_brackets THEN <<Ord("<")>> \o OrdAll(bracket_content) ELSE <<>>
    ELSE IF in_brackets
         THEN IF text[i] = ">"
              THEN BracketKeys(bracket_content)
                   \o ParseFrom(text, i + 1, FALSE, bracket_content)
              ELSE ParseFrom(text, i + 1, TRUE, Append(bracket_content, text[i]))
         ELSE IF text[i] = "<"
              THEN ParseFrom(text, i + 1, TRUE, <<>>)
              ELSE <<Ord(text[i])>> \o ParseFrom(text, i + 1, FALSE, bracket_content)

\* parse_keybinding(obj) for a str
parse_keybinding(text) == ParseFrom(text, 1, FALSE, <<>>)

\* The keys of REVERSED_SPECIAL_KEYS that are single codes
ReversedCodes == {SPECIAL_KEYS[i][2][1] : i \in {j \in 1..Len(SPECIAL_KEYS) :
                                                   Len(SPECIAL_KEYS[j][2]) = 1}}

\* REVERSED_SPECIAL_KEYS[key]: of the names with this value the one
\* inserted last.
REVERSED_SPECIAL_KEYS(key) ==
    LET named == {i \in 1..Len(SPECIAL_KEYS) : SPECIAL_KEYS[i][2] = <<key>>}
    IN SPECIAL_KEYS[CHOOSE i \in named : \A j \in named : j <= i][1]

\* key_to_string changed: no code is shown as its character.
key_to_string_no_chr(key) ==
    IF key \in ReversedCodes
    THEN <<"<">> \o REVERSED_SPECIAL_KEYS(key) \o <<">">>
    ELSE <<"<">> \o StrOf(key) \o <<">">>

\* key_to_string(key), as a text
key_to_string(key) ==
    IF key \in 33..126 THEN <<Chr(key)>>
    ELSE IF key \in ReversedCodes
         THEN <<"<">> \o REVERSED_SPECIAL_KEYS(key) \o <<">">>
         ELSE <<"<">> \o StrOf(key) \o <<">">>

\* construct_keybinding(iterable)
RECURSIVE construct_keybinding(_)
construct_keybinding(keys) ==
    IF keys = <<>> THEN <<>>
    ELSE key_to_string(Head(keys)) \o construct_keybinding(Tail(keys))

----------------------------------------------------------------------------
(* KeyMaps: one trie per context.  The operations work on a store          *)
(* [heap, keymaps, err]; err names the exception an operation ended with.  *)

Store(h, km) == [heap |-> h, keymaps |-> km, err |-> "none"]

\* _clean_input, without the lexing: the context's root dict, created when
\* the context does not exist yet.
CleanInput(S, context) ==
    IF S.keymaps[context] /= 0 THEN S
    ELSE LET n == NewId(S.heap)
         IN [S EXCEPT !.heap = Put(@, n, EmptyNode), !.keymaps[context] = n]

RECURSIVE BindWalk(_, _, _, _)

\* BindWalk changed: a leaf bound where a subtree stands is kept beside the
\* subtree (as its passive leaf) and does not replace it.
BindWalkKeepsSubtree(S, p, keys, leaf) ==
    IF Len(keys) = 1
    THEN IF keys[1] \in DOMAIN S.heap[p] /\ IsDict(S.heap[p][keys[1]])
         THEN [S EXCEPT !.heap[S.heap[p][keys[1]].id] = Put(@, PASSIVE_ACTION, leaf)]
         ELSE [S EXCEPT !.heap[p] = Put(@, keys[1], leaf)]
    ELSE IF keys[1] \in DOMAIN S.heap[p] /\ IsDict(S.heap[p][keys[1]])
         THEN BindWalk(S, S.heap[p][keys[1]].id, Tail(keys), leaf)
         ELSE LET n == NewId(S.heap)
                  S1 == [S EXCEPT !.heap = Put([@ EXCEPT ![p] = Put(@, keys[1], Ref(n))],
                                               n, EmptyNode)]
              IN BindWalk(S1, n, Tail(keys), leaf)

\* The loop of bind and its last assignment, from dict p on.
BindWalk(S, p, keys, leaf) ==
    IF Len(keys) = 1
    THEN [S EXCEPT !.heap[p] = Put(@, keys[1], leaf)]
    ELSE IF keys[1] \in DOMAIN S.heap[p] /\ IsDict(S.heap[p][keys[1]])
         THEN BindWalk(S, S.heap[p][keys[1]].id, Tail(keys), leaf)
         ELSE LET n == NewId(S.heap)
                  S1 == [S EXCEPT !.heap = Put([@ EXCEPT ![p] = Put(@, keys[1], Ref(n))],
                                               n, EmptyNode)]
              IN BindWalk(S1, n, Tail(keys), leaf)

\* bind(context, keys, leaf) after the lexing of keys
BindKeys(S, context, keys, leaf) ==
    LET S1 == CleanInput(S, context)
    IN IF keys = <<>> THEN S1
       ELSE BindWalk(S1, S1.keymaps[context], keys, leaf)

bind(S, context, text, leaf) == BindKeys(S, context, parse_keybinding(text), leaf)

\* copy.deepcopy(v): [heap, val]; a function (a leaf) is copied as itself,
\* a dict as a new dict of copies.
RECURSIVE DeepCopy(_, _)

\* DeepCopy changed: the value itself is handed on, not a copy of it.
SharedNotCopied(h, v) == [heap |-> h, val |-> v]

DeepCopy(h, v) ==
    IF ~IsDict(v) THEN [heap |-> h, val |-> v]
    ELSE LET n == NewId(h)
             RECURSIVE CopyItems(_, _)
             CopyItems(hh, ks) ==
                 IF ks = {} THEN hh
                 ELSE LET k == CHOOSE x \in ks : \A y \in ks : x <= y
                          r == DeepCopy(hh, h[v.id][k])
                      IN CopyItems([r.heap EXCEPT ![n] = Put(@, k, r.val)], ks \ {k})
         IN [heap |-> CopyItems(Put(h, n, EmptyNode), DOMAIN h[v.id]), val |-> Ref(n)]

\* The loop of copy: pointer = pointer[key] for each key.  A missing key
\* is a KeyError; subscripting a leaf (a function) is a TypeError.
RECURSIVE Resolve(_, _, _)
Resolve(h, v, keys) ==
    IF keys = <<>> THEN [err |-> "none", val |-> v]
    ELSE IF ~IsDict(v) THEN [err |-> "TypeError", val |-> NoneV]
    ELSE IF keys[1] \notin DOMAIN h[v.id] THEN [err |-> "KeyError", val |-> NoneV]
    ELSE Resolve(h, h[v.id][keys[1]], Tail(keys))

\* copy(context, source, target)
copy(S, context, source, target) ==
    LET S1 == CleanInput(S, context)
        r == Resolve(S1.heap, Ref(S1.keymaps[context]), parse_keybinding(source))
    IN IF source = <<>> THEN S1
       ELSE IF r.err /= "none" THEN [S1 EXCEPT !.err = r.err]
       ELSE LET c == DeepCopy(S1.heap, r.val)
            IN bind([S1 EXCEPT !.heap = c.heap], context, target, c.val)

\* _unbind_traverse(pointer, keys, pos): [heap, err].  `keys[pos] not in
\* pointer` on a leaf is a TypeError; keys.pop() shortens the list only
\* after the last position was handled, so no later read sees it.
RECURSIVE UnbindTraverse(_, _, _, _)

\* UnbindTraverse changed: at the last key only a leaf is deleted, a dict at
\* that key is left in place.
UnbindTraverseLeafOnly(h, pointer, keys, pos) ==
    IF ~IsDict(pointer) THEN [heap |-> h, err |-> "TypeError"]
    ELSE IF keys[pos] \notin DOMAIN h[pointer.id] THEN [heap |-> h, err |-> "none"]
    ELSE IF Len(keys) > pos
         THEN LET r == UnbindTraverse(h, h[pointer.id][keys[pos]], keys, pos + 1)
                  child == r.heap[pointer.id][keys[pos]]
              IN IF r.err /= "none" THEN r
                 ELSE IF IsDict(child) /\ DOMAIN r.heap[child.id] = {}
                      THEN [r EXCEPT !.heap[pointer.id] = Del(@, keys[pos])]
                      ELSE r
         ELSE IF IsDict(h[pointer.id][keys[pos]]) THEN [heap |-> h, err |-> "none"]
         ELSE [heap |-> [h EXCEPT ![pointer.id] = Del(@, keys[pos])], err |-> "none"]

\* UnbindTraverse changed: a dict the removal has emptied is left in place.
UnbindTraverseKeepsEmpty(h, pointer, keys, pos) ==
    IF ~IsDict(pointer) THEN [heap |-> h, err |-> "TypeError"]
    ELSE IF keys[pos] \notin DOMAIN h[pointer.id] THEN [heap |-> h, err |-> "none"]
    ELSE IF Len(keys) > pos
         THEN UnbindTraverse(h, h[pointer.id][keys[pos]], keys, pos + 1)
         ELSE [heap |-> [h EXCEPT ![pointer.id] = Del(@, keys[pos])], err |-> "none"]

UnbindTraverse(h, pointer, keys, pos) ==
    IF ~IsDict(pointer) THEN [heap |-> h, err |-> "TypeError"]
    ELSE IF keys[pos] \notin DOMAIN h[pointer.id] THEN [heap |-> h, err |-> "none"]
    ELSE IF Len(keys) > pos
         THEN LET r == UnbindTraverse(h, h[pointer.id][keys[pos]], keys, pos + 1)
                  child == r.heap[pointer.id][keys[pos]]
              IN IF r.err /= "none" THEN r
                 ELSE IF IsDict(child) /\ DOMAIN r.heap[child.id] = {}
                      THEN [r EXCEPT !.heap[pointer.id] = Del(@, keys[pos])]
                      ELSE r
         ELSE [heap |-> [h EXCEPT ![pointer.id] = Del(@, keys[pos])], err |-> "none"]

\* unbind(context, keys)
unbind(S, context, text) ==
    LET S1 == CleanInput(S, context)
        keys == parse_keybinding(text)
        r == UnbindTraverse(S1.heap, Ref(S1.keymaps[context]), keys, 1)
    IN IF keys = <<>> THEN S1
       ELSE [S1 EXCEPT !.heap = r.heap, !.err = r.err]

----------------------------------------------------------------------------
(* KeyBuffer                                                               *)

NoQuantifier == -1    \* quantifier is None

\* NewKeyBuffer changed: the context's quantifier flag is not read.
NewKeyBufferIgnoresFlag(h, keymap) ==
    [keymap |-> keymap,
     keys |-> <<>>,
     wildcards |-> <<>>,
     pointer |-> keymap,
     result |-> NoneV,
     quantifier |-> NoQuantifier,
     finished_parsing_quantifier |-> FALSE,
     finished_parsing |-> FALSE,
     parse_error |-> FALSE]

\* KeyBuffer.__init__(keymap), which clear() calls again
NewKeyBuffer(h, keymap) ==
    [keymap |-> keymap,
     keys |-> <<>>,
     wildcards |-> <<>>,
     pointer |-> keymap,
     result |-> NoneV,
     quantifier |-> NoQuantifier,
     finished_parsing_quantifier |->
         /\ IsDict(keymap)
         /\ QUANT_KEY \in DOMAIN h[keymap.id]
         /\ h[keymap.id][QUANT_KEY] = Leaf("false"),
     finished_parsing |-> FALSE,
     parse_error |-> FALSE]

exclude_from_anykey == {ESC}

\* Moved changed: a move to a leaf exposes it as the result and does not
\* finish the parsing.
MovedNeverFinishes(h, b, to) ==
    IF IsDict(to)
    THEN IF PASSIVE_ACTION \in DOMAIN h[to.id]
         THEN [b EXCEPT !.pointer = to, !.result = h[to.id][PASSIVE_ACTION]]
         ELSE [b EXCEPT !.pointer = to]
    ELSE [b EXCEPT !.pointer = to, !.result = to]

\* Moved changed: a move to a dict exposes no passive leaf.
MovedHidesPassive(h, b, to) ==
    IF IsDict(to)
    THEN [b EXCEPT !.pointer = to]
    ELSE [b EXCEPT !.pointer = to, !.result = to, !.finished_parsing = TRUE]

\* After a move to the value `to`: lines 267-273.
Moved(h, b, to) ==
    IF IsDict(to)
    THEN IF PASSIVE_ACTION \in DOMAIN h[to.id]
         THEN [b EXCEPT !.pointer = to, !.result = h[to.id][PASSIVE_ACTION]]
         ELSE [b EXCEPT !.pointer = to]
    ELSE [b EXCEPT !.pointer = to, !.result = to, !.finished_parsing = TRUE]

\* KeyBufferAdd changed: a digit replaces the quantifier instead of being
\* folded into it.
KeyBufferAddLastDigit(h, b, key) ==
    LET b1 == [b EXCEPT !.keys = Append(@, key), !.result = NoneV]
        b2 == [b1 EXCEPT !.finished_parsing_quantifier = TRUE]
    IN IF ~b.finished_parsing_quantifier /\ key \in DIGITS
       THEN [kb |-> [b1 EXCEPT !.quantifier = key - 48], err |-> "none"]
       ELSE IF ~IsDict(b.pointer) THEN [kb |-> b2, err |-> "TypeError"]
       ELSE LET node == h[b.pointer.id]
            IN IF key \in DOMAIN node
               THEN [kb |-> Moved(h, b2, node[key]), err |-> "none"]
               ELSE IF ANYKEY \in DOMAIN node /\ key \notin exclude_from_anykey
               THEN [kb |-> Moved(h, [b2 EXCEPT !.wildcards = Append(@, key)],
                                  node[ANYKEY]),
                     err |-> "none"]
               ELSE [kb |-> [b2 EXCEPT !.finished_parsing = TRUE,
                                       !.parse_error = TRUE],
                     err |-> "none"]

\* KeyBufferAdd changed: the ANY child is looked for before the child of
\* the key.
KeyBufferAddAnyFirst(h, b, key) ==
    LET b1 == [b EXCEPT !.keys = Append(@, key), !.result = NoneV]
        b2 == [b1 EXCEPT !.finished_parsing_quantifier = TRUE]
    IN IF ~b.finished_parsing_quantifier /\ key \in DIGITS
       THEN [kb |-> [b1 EXCEPT !.quantifier =
                        (IF @ = NoQuantifier THEN 0 ELSE @) * 10 + key - 48],
             err |-> "none"]
       ELSE IF ~IsDict(b.pointer) THEN [kb |-> b2, err |-> "TypeError"]
       ELSE LET node == h[b.pointer.id]
            IN IF ANYKEY \in DOMAIN node /\ key \notin exclude_from_anykey
               THEN [kb |-> Moved(h, [b2 EXCEPT !.wildcards = Append(@, key)],
                                  node[ANYKEY]),
                     err |-> "none"]
               ELSE IF key \in DOMAIN node
               THEN [kb |-> Moved(h, b2, node[key]), err |-> "none"]
               ELSE [kb |-> [b2 EXCEPT !.finished_parsing = TRUE,
                                       !.parse_error = TRUE],
                     err |-> "none"]

\* KeyBuffer.add(key): [kb, err].  `key in self.pointer` raises a TypeError
\* when the pointer is not a dict (None, or a leaf); what was assigned
\* before stays assigned.
KeyBufferAdd(h, b, key) ==
    LET b1 == [b EXCEPT !.keys = Append(@, key), !.result = NoneV]
        b2 == [b1 EXCEPT !.finished_parsing_quantifier = TRUE]
    IN IF ~b.finished_parsing_quantifier /\ key \in DIGITS
       THEN [kb |-> [b1 EXCEPT !.quantifier =
                        (IF @ = NoQuantifier THEN 0 ELSE @) * 10 + key - 48],
             err |-> "none"]
       ELSE IF ~IsDict(b.pointer) THEN [kb |-> b2, err |-> "TypeError"]
       ELSE LET node == h[b.pointer.id]
            IN IF key \in DOMAIN node
               THEN [kb |-> Moved(h, b2, node[key]), err |-> "none"]
               ELSE IF ANYKEY \in DOMAIN node /\ key \notin exclude_from_anykey
               THEN [kb |-> Moved(h, [b2 EXCEPT !.wildcards = Append(@, key)],
                                  node[ANYKEY]),
                     err |-> "none"]
               ELSE [kb |-> [b2 EXCEPT !.finished_parsing = TRUE,
                                       !.parse_error = TRUE],
                     err |-> "none"]

----------------------------------------------------------------------------
(* Top.press: the dispatch of one key                                      *)

\* What calling the result raises: quit raises BreakLoop, a value that is
\* not a function (a str, a dict) is not callable, the mode actions only
\* assign to the controller, any other action calls into a panel and may
\* raise what the environment makes it raise (exc).
Raised(result, exc) ==
    IF result.t /= "leaf" \/ result.a = "false" THEN "TypeError"
    ELSE IF result.a = "quit" THEN "BreakLoop"
    ELSE IF result.a \in {"auto_mode", "full_mode", "compact_mode"} THEN "none"
    ELSE exc

\* TopPress changed: no finally, so the buffer is not cleared when the
\* invoked action raises.
TopPressNoFinally(h, b, key, exc) ==
    LET r == KeyBufferAdd(h, b, key)
        a == r.kb
        cleared == NewKeyBuffer(h, a.keymap)
        call == [action |-> a.result, quantifier |-> a.quantifier, keys |-> a.keys]
    IN IF r.err /= "none"
       THEN [kb |-> a, calls |-> <<>>, ret |-> "none", exc |-> r.err]
       ELSE IF a.result /= NoneV
       THEN [kb |-> IF a.finished_parsing /\ Raised(a.result, exc) = "none"
                    THEN cleared ELSE a,
             calls |-> <<call>>,
             ret |-> IF Raised(a.result, exc) = "none" THEN "True" ELSE "none",
             exc |-> Raised(a.result, exc)]
       ELSE IF a.finished_parsing
       THEN [kb |-> cleared, calls |-> <<>>, ret |-> "False", exc |-> "none"]
       ELSE [kb |-> a, calls |-> <<>>, ret |-> "True", exc |-> "none"]

\* TopPress changed: what the invoked action raises is caught in press.
TopPressCatches(h, b, key, exc) ==
    LET r == KeyBufferAdd(h, b, key)
        a == r.kb
        cleared == NewKeyBuffer(h, a.keymap)
        call == [action |-> a.result, quantifier |-> a.quantifier, keys |-> a.keys]
    IN IF r.err /= "none"
       THEN [kb |-> a, calls |-> <<>>, ret |-> "none", exc |-> r.err]
       ELSE IF a.result /= NoneV
       THEN [kb |-> IF a.finished_parsing THEN cleared ELSE a,
             calls |-> <<call>>, ret |-> "True", exc |-> "none"]
       ELSE IF a.finished_parsing
       THEN [kb |-> cleared, calls |-> <<>>, ret |-> "False", exc |-> "none"]
       ELSE [kb |-> a, calls |-> <<>>, ret |-> "True", exc |-> "none"]

\* press(key): [kb, calls, ret, exc]; calls lists the actions invoked, each
\* with the quantifier and the keys the buffer held when it was called.
TopPress(h, b, key, exc) ==
    LET r == KeyBufferAdd(h, b, key)
        a == r.kb
        cleared == NewKeyBuffer(h, a.keymap)
        call == [action |-> a.result, quantifier |-> a.quantifier, keys |-> a.keys]
    IN IF r.err /= "none"
       THEN [kb |-> a, calls |-> <<>>, ret |-> "none", exc |-> r.err]
       ELSE IF a.result /= NoneV
       THEN [kb |-> IF a.finished_parsing THEN cleared ELSE a,
             calls |-> <<call>>,
             ret |-> IF Raised(a.result, exc) = "none" THEN "True" ELSE "none",
             exc |-> Raised(a.result, exc)]
       ELSE IF a.finished_parsing
       THEN [kb |-> cleared, calls |-> <<>>, ret |-> "False", exc |-> "none"]
       ELSE [kb |-> a, calls |-> <<>>, ret |-> "True", exc |-> "none"]

----------------------------------------------------------------------------
(* KeyMaps.use_keymap and Top.handle_key                                   *)

\* use_keymap changed: the buffer is cleared on every activation.
use_keymap_always_clears(h, km, used, b, keymap_name) ==
    LET fresh == NewId(h)
        h1 == IF km[keymap_name] /= 0 THEN h ELSE Put(h, fresh, EmptyNode)
        keymap == IF km[keymap_name] /= 0 THEN Ref(km[keymap_name]) ELSE Ref(fresh)
    IN [heap |-> h1,
        used_keymap |-> keymap_name,
        kb |-> NewKeyBuffer(h1, keymap)]

\* use_keymap(keymap_name): [heap, used_keymap, kb].  self.get(name, dict())
\* makes a new dict, held by the buffer alone, when there is no such context.
use_keymap(h, km, used, b, keymap_name) ==
    LET fresh == NewId(h)
        h1 == IF km[keymap_name] /= 0 THEN h ELSE Put(h, fresh, EmptyNode)
        keymap == IF km[keymap_name] /= 0 THEN Ref(km[keymap_name]) ELSE Ref(fresh)
    IN [heap |-> h1,
        used_keymap |-> keymap_name,
        kb |-> IF used /= keymap_name
               THEN NewKeyBuffer(h1, keymap)
               ELSE [b EXCEPT !.keymap = keymap]]

\* handle_key(key): [heap, used_keymap, kb, calls, ret, exc].  consumed is
\* what super().press(key), the focused containers' answer, returned.
handle_key(h, km, used, b, key, consumed, exc) ==
    IF key < 0
    THEN [heap |-> h, used_keymap |-> used, kb |-> NewKeyBuffer(h, b.keymap),
          calls |-> <<>>, ret |-> "none", exc |-> "none"]
    ELSE IF consumed
    THEN [heap |-> h, used_keymap |-> used, kb |-> b,
          calls |-> <<>>, ret |-> "none", exc |-> "none"]
    ELSE LET u == use_keymap(h, km, used, b, "root")
             r == TopPress(u.heap, u.kb, key, exc)
         IN [heap |-> u.heap, used_keymap |-> u.used_keymap, kb |-> r.kb,
             calls |-> r.calls, ret |-> "none", exc |-> r.exc]

----------------------------------------------------------------------------
(* Bounds and inputs of the model                                          *)

MaxOps == 2      \* KeyMaps edits made while the bindings are set up
MaxKeys == 3     \* keys the buffer holds before it is cleared

Contexts == {"root", "other"}

TextG == <<"g">>
TextGG == <<"g", "g">>
TextX == <<"x">>
Text1 == <<"1">>
TextGBg == <<"g", "<", "b", "g", ">">>
TextQuant == <<"<", "a", "l", "l", "o", "w", "_", "q", "u", "a", "n", "t", "i",
               "f", "i", "e", "r", "s", ">">>

BindEdit(context, text, leaf) ==
    [op |-> "bind", context |-> context, text |-> text, leaf |-> leaf, target |-> <<>>]

CopyEdit(context, source, target) ==
    [op |-> "copy", context |-> context, text |-> source, leaf |-> "", target |-> target]

UnbindEdit(context, text) ==
    [op |-> "unbind", context |-> context, text |-> text, leaf |-> "", target |-> <<>>]

\* One KeyMaps edit on a store; nothing more is done after one has raised.
Apply(S, e) ==
    IF S.err /= "none" THEN S
    ELSE IF e.op = "bind" THEN bind(S, e.context, e.text, Leaf(e.leaf))
    ELSE IF e.op = "copy" THEN copy(S, e.context, e.text, e.target)
    ELSE unbind(S, e.context, e.text)

RECURSIVE Run(_, _)
Run(S, script) ==
    IF script = <<>> THEN S ELSE Run(Apply(S, Head(script)), Tail(script))

\* The edits the bindings are set up with.
SetupEdits ==
    {BindEdit("root", b[1], b[2]) :
        b \in { <<TextGG, "A">>, <<TextG, "B">>, <<Text1, "B">>,
                <<TextGBg, "B">>, <<TextQuant, "false">> }}
    \cup {BindEdit("other", TextX, "B")}

Scripts == UNION {[1..n -> SetupEdits] : n \in 0..MaxOps}

\* The keys fed to the buffer.
FeedKeys == {Ord("g"), Ord("x"), Ord("1"), Ord("2")}

\* The codes handed to handle_key; -1 is getch()'s "nothing arrived".
GetchKeys == {Ord("g"), Ord("1"), -1}

\* What an invoked action raises, when it is not quit.
Excs == {"none", "Exception"}

----------------------------------------------------------------------------
(* Key dispatch over any bindings: the state after a construction that     *)
(* sets up bindings and activates a context, as Top.__init__ does, and     *)
(* the operations as actions                                               *)

\* The dicts a live object refers to.
Roots(km, b) ==
    {km[c] : c \in DOMAIN km}
    \cup {v.id : v \in {w \in {b.keymap, b.pointer, b.result} : IsDict(w)}}

NoTop == [pc |-> "off", frame |-> <<>>]

\* The buffer is as clear() leaves it.
Cleared(h, b) == b = NewKeyBuffer(h, b.keymap)

\* fresh: the operation began on a cleared buffer.
Observed(op, context, key, fresh, r) ==
    [op |-> op, context |-> context, key |-> key, fresh |-> fresh,
     calls |-> r.calls, ret |-> r.ret, exc |-> r.exc]

Quiet(exc) == [calls |-> <<>>, ret |-> "none", exc |-> exc]

\* KeyBuffer(), KeyMaps(keybuffer), the edits of script, use_keymap(context)
Constructed(script, context) ==
    \E S \in {Run(Store(EmptyNode, [c \in Contexts |-> 0]), script)} :
    \E u \in {use_keymap(S.heap, S.keymaps, "", NewKeyBuffer(S.heap, NoneV), context)} :
       /\ S.err = "none"
       /\ heap = Collect(u.heap, Roots(S.keymaps, u.kb))
       /\ keymaps = S.keymaps
       /\ used_keymap = u.used_keymap
       /\ kb = u.kb
       /\ edits = <<>>
       /\ setup = script
       /\ last = Observed("init", context, 0, TRUE, Quiet("none"))

UseKeymap(keymap_name) ==
    \E u \in {use_keymap(heap, keymaps, used_keymap, kb, keymap_name)} :
       /\ kb' = u.kb
       /\ used_keymap' = u.used_keymap
       /\ heap' = Collect(u.heap, Roots(keymaps, u.kb))
       /\ last' = Observed("use_keymap", keymap_name, 0, Cleared(heap, kb), Quiet("none"))
       /\ UNCHANGED <<keymaps, top, edits, setup>>

\* Top.press(key)
Press(key, exc) ==
    \E r \in {TopPress(heap, kb, key, exc)} :
       /\ Len(kb.keys) < MaxKeys
       /\ kb' = r.kb
       /\ heap' = Collect(heap, Roots(keymaps, r.kb))
       /\ last' = Observed("press", used_keymap, key, Cleared(heap, kb), r)
       /\ UNCHANGED <<keymaps, used_keymap, top, edits, setup>>

\* Top.handle_key(key)
HandleKey(key, consumed, exc) ==
    \E r \in {handle_key(heap, keymaps, used_keymap, kb, key, consumed, exc)} :
       /\ Len(kb.keys) < MaxKeys
       /\ kb' = r.kb
       /\ used_keymap' = r.used_keymap
       /\ heap' = Collect(r.heap, Roots(keymaps, r.kb))
       /\ last' = Observed("handle_key", used_keymap, key, Cleared(heap, kb), r)
       /\ UNCHANGED <<keymaps, top, edits, setup>>

Init ==
    /\ \E script \in Scripts, c \in Contexts : Constructed(script, c)
    /\ top = NoTop

Next ==
    \/ \E c \in Contexts : UseKeymap(c)
    \/ \E k \in FeedKeys, e \in Excs : Press(k, e)
    \/ \E k \in GetchKeys, consumed \in BOOLEAN, e \in Excs :
           HandleKey(k, consumed, e)

Spec == Init /\ [][Next]_vars

----------------------------------------------------------------------------
(* Claims about key dispatch (specification Spec)                          *)

KeyG == Ord("g")

\* The actions a list of calls invoked.
Acts(calls) == [i \in 1..Len(calls) |-> calls[i].action.a]

\* The edits of the setup made on one context, in order.
EditsOn(context) == SelectSeq(setup, LAMBDA e : e.context = context)

GGLast == EditsOn("root") = <<BindEdit("root", TextG, "B"), BindEdit("root", TextGG, "A")>>
GLast == EditsOn("root") = <<BindEdit("root", TextGG, "A"), BindEdit("root", TextG, "B")>>

\* The last operation fed g to a cleared buffer of context root, and the
\* next one feeds a key too.
SecondKeyStep ==
    /\ used_keymap = "root"
    /\ last.op = "press" /\ last.key = KeyG /\ last.fresh /\ last.exc = "none"
    /\ last'.op = "press"

\* C1 as claimed: with "gg" bound to A and "g" bound to B on a context (in
\* either order), g then g invokes A and not B, and g then another key
\* invokes B.
C1_Claimed ==
    [][(SecondKeyStep /\ (GGLast \/ GLast)) =>
          LET both == Acts(last.calls) \o Acts(last'.calls)
              has(a) == \E i \in 1..Len(both) : both[i] = a
          IN IF last'.key = KeyG THEN has("A") /\ ~has("B") ELSE has("B")]_vars

\* C1 as amended: the later of the two binds wins.  With "gg" bound last,
\* g then g invokes A once and never B, and g then another key invokes
\* nothing and press reports False; with "g" bound last, every g invokes B
\* at once and A is never invoked.  A and B are never both invoked.
C1_LastBindWins ==
    [][(SecondKeyStep /\ (GGLast \/ GLast)) =>
          IF GGLast
          THEN /\ Acts(last.calls) = <<>>
               /\ IF last'.key = KeyG
                  THEN Acts(last'.calls) = <<"A">> /\ last'.calls[1].keys = <<KeyG, KeyG>>
                  ELSE Acts(last'.calls) = <<>> /\ last'.ret = "False" /\ Cleared(heap', kb')
          ELSE /\ Acts(last.calls) = <<"B">>
               /\ IF last'.key = KeyG
                  THEN Acts(last'.calls) = <<"B">>
                  ELSE Acts(last'.calls) = <<>>]_vars

\* C1's case: g, g was fed with "gg" bound last and A was invoked.
C1_Witness ==
    /\ GGLast /\ used_keymap = "root" /\ last.op = "press"
    /\ Acts(last.calls) = <<"A">> /\ last.calls[1].keys = <<KeyG, KeyG>>

\* The base-10 value of a list of digit keys.
RECURSIVE Base10(_)
Base10(digits) ==
    IF digits = <<>> THEN 0
    ELSE Base10(SubSeq(digits, 1, Len(digits) - 1)) * 10 + (digits[Len(digits)] - 48)

AllDigits(keys) == \A i \in 1..Len(keys) : keys[i] \in DIGITS

\* The context the buffer parses in has not disabled quantifiers.
QuantifiersEnabled ==
    ~(/\ QUANT_KEY \in DOMAIN heap[kb.keymap.id]
      /\ heap[kb.keymap.id][QUANT_KEY] = Leaf("false"))

\* The buffer holds only digits d1..dn, n >= 1, fed since it was cleared,
\* and the step is press(key) of a key the context binds to an action.
DigitsThenBoundKey ==
    /\ QuantifiersEnabled
    /\ kb.keys /= <<>> /\ AllDigits(kb.keys) /\ kb.pointer = kb.keymap
    /\ last'.op = "press"
    /\ last'.key \notin DIGITS
    /\ last'.key \in DOMAIN heap[kb.keymap.id]
    /\ heap[kb.keymap.id][last'.key].t = "leaf"

\* C2: in a context with quantifiers enabled, digits d1..dn and then a key
\* bound to action X invoke X exactly once, with the quantifier equal to the
\* base-10 value of d1..dn when X is called, and the quantifier is unset
\* afterwards.
C2_QuantifierAtCall ==
    [][DigitsThenBoundKey =>
          /\ Len(last'.calls) = 1
          /\ last'.calls[1].action = heap[kb.keymap.id][last'.key]
          /\ last'.calls[1].quantifier = Base10(kb.keys)
          /\ last'.calls[1].keys = Append(kb.keys, last'.key)
          /\ kb'.quantifier = NoQuantifier]_vars

\* C2's case: digits 1, 2 and then g invoked an action with quantifier 12.
C2_Witness ==
    /\ last.op = "press" /\ Len(last.calls) = 1
    /\ last.calls[1].keys = <<Ord("1"), Ord("2"), KeyG>>
    /\ last.calls[1].quantifier = 12
    /\ kb.quantifier = NoQuantifier

\* The step feeds a digit the pointer's dict binds to an action.
BoundDigitStep ==
    /\ ~QuantifiersEnabled
    /\ last'.op = "press"
    /\ last'.key \in DIGITS
    /\ IsDict(kb.pointer)
    /\ last'.key \in DOMAIN heap[kb.pointer.id]
    /\ heap[kb.pointer.id][last'.key].t = "leaf"

\* C3: in a context that disables quantifiers the quantifier is unset in
\* every state, and a digit is matched like any other key: an action bound
\* to it is invoked when it is fed.
C3_DigitsAreKeys ==
    /\ [](~QuantifiersEnabled =>
              kb.quantifier = NoQuantifier /\ kb.finished_parsing_quantifier)
    /\ [][BoundDigitStep =>
              /\ Len(last'.calls) = 1
              /\ last'.calls[1].action = heap[kb.pointer.id][last'.key]
              /\ last'.calls[1].quantifier = NoQuantifier]_vars

\* C3's case: with quantifiers disabled, digit 1 invoked the action bound
\* to it.
C3_Witness ==
    /\ ~QuantifiersEnabled /\ last.op = "press" /\ last.key = Ord("1")
    /\ Acts(last.calls) = <<"B">>

\* The fields of the buffer other than the keymap reference.
Progress(b) ==
    <<b.keys, b.wildcards, b.pointer, b.result, b.quantifier,
      b.finished_parsing_quantifier, b.finished_parsing, b.parse_error>>

\* C4: use_keymap of the active context leaves the buffer's keys,
\* wildcards, pointer, quantifier and flags as they are; use_keymap of
\* another context resets the buffer to its initial state on that context;
\* and handle_key, which activates root before every key, parses the key
\* from the state the buffer was in.
C4_ReactivationKeeps ==
    [][/\ (last'.op = "use_keymap" /\ last'.context = used_keymap)
              => Progress(kb') = Progress(kb)
       /\ (last'.op = "use_keymap" /\ last'.context /= used_keymap)
              => /\ kb'.keys = <<>> /\ kb'.wildcards = <<>>
                 /\ kb'.pointer = kb'.keymap /\ kb'.result = NoneV
                 /\ kb'.quantifier = NoQuantifier
                 /\ ~kb'.finished_parsing /\ ~kb'.parse_error
                 /\ (keymaps[last'.context] /= 0
                        => kb'.keymap = Ref(keymaps[last'.context]))
       /\ (last'.op = "handle_key" /\ used_keymap = "root" /\ last'.key >= 0)
              => \/ Progress(kb') = Progress(kb) /\ last'.calls = <<>>
                 \/ \E e \in Excs :
                        LET both == [n \in DOMAIN heap \cup DOMAIN heap' |->
                                        IF n \in DOMAIN heap THEN heap[n] ELSE heap'[n]]
                            r == TopPress(both, [kb EXCEPT !.keymap = kb'.keymap],
                                          last'.key, e)
                        IN kb' = r.kb /\ last'.calls = r.calls]_vars

\* C4's case: the active context was activated again while a key sequence
\* was pending, and the sequence is still pending.
C4_Witness ==
    /\ last.op = "use_keymap" /\ ~last.fresh
    /\ kb.keys = <<KeyG>> /\ IsDict(kb.pointer) /\ kb.pointer /= kb.keymap

\* C8: for every key press consumes, with a the buffer right after add():
\* a result is invoked exactly once and the buffer is cleared exactly when
\* parsing is finished, also when the action raises; finished parsing
\* without a result invokes nothing, clears the buffer and returns False;
\* otherwise the buffer is kept and press returns True.
C8_DispatchContract ==
    [][(last'.op = "press") =>
          LET r == KeyBufferAdd(heap, kb, last'.key)
              a == r.kb
          IN r.err = "none" =>
               IF a.result /= NoneV
               THEN /\ Len(last'.calls) = 1
                    /\ last'.calls[1].action = a.result
                    /\ (a.finished_parsing => Cleared(heap', kb') /\ kb'.keys = <<>>)
                    /\ (~a.finished_parsing => kb' = a)
                    /\ (last'.exc = "none" => last'.ret = "True")
                    /\ (last'.exc /= "none" => last'.ret = "none")
               ELSE IF a.finished_parsing
               THEN /\ last'.calls = <<>> /\ last'.ret = "False"
                    /\ Cleared(heap', kb') /\ kb'.keys = <<>>
               ELSE /\ last'.calls = <<>> /\ last'.ret = "True" /\ kb' = a]_vars

\* C8's case: an invoked action raised after parsing had finished, and the
\* buffer is cleared.
C8_Witness ==
    /\ last.op = "press" /\ last.exc = "Exception" /\ Len(last.calls) = 1
    /\ kb.keys = <<>> /\ Len(last.calls[1].keys) = 2

----------------------------------------------------------------------------
(* The tries under edits: KeyMaps() with no context yet, and bind, copy    *)
(* and unbind as steps.  An edit that raises leaves the KeyMaps as the     *)
(* exception found it, and the caller goes on.                             *)

MaxEdits == 3    \* edits made as steps

TextGGX == <<"g", "g", "x">>
TextGX == <<"g", "x">>

BindInputs ==
    {BindEdit("root", b[1], b[2]) :
        b \in { <<TextG, "B">>, <<TextGG, "A">>, <<TextGGX, "A">>, <<TextX, "A">>,
                <<TextGX, "B">> }}
    \cup {BindEdit("other", TextX, "B")}

CopyInputs ==
    {CopyEdit("root", c[1], c[2]) :
        c \in { <<TextG, TextX>>, <<TextG, TextGG>>, <<TextGG, TextX>>,
                <<TextX, TextGX>> }}
    \cup {CopyEdit("other", TextX, TextG)}

UnbindInputs ==
    {UnbindEdit("root", t) : t \in {TextG, TextGG, TextGGX, TextX}}
    \cup {UnbindEdit("other", TextX)}

\* An edit as the log keeps it: with the exception it ended with.
Done(e, err) ==
    [op |-> e.op, context |-> e.context, text |-> e.text, leaf |-> e.leaf,
     target |-> e.target, err |-> err]

Edited(e) ==
    \E S \in {Apply(Store(heap, keymaps), e)} :
       /\ Len(edits) < MaxEdits
       /\ heap' = Collect(S.heap, Roots(S.keymaps, kb))
       /\ keymaps' = S.keymaps
       /\ edits' = Append(edits, Done(e, S.err))
       /\ last' = Observed(e.op, e.context, 0, TRUE, Quiet(S.err))
       /\ UNCHANGED <<used_keymap, kb, top, setup>>

\* KeyMaps.bind(context, keys, leaf)
Bind(e) == e.op = "bind" /\ Edited(e)

\* KeyMaps.copy(context, source, target)
Copy(e) == e.op = "copy" /\ Edited(e)

\* KeyMaps.unbind(context, keys)
Unbind(e) == e.op = "unbind" /\ Edited(e)

\* KeyBuffer() and KeyMaps(keybuffer), as Top.__init__ makes them
InitTrie ==
    /\ heap = EmptyNode
    /\ keymaps = [c \in Contexts |-> 0]
    /\ used_keymap = ""
    /\ kb = NewKeyBuffer(EmptyNode, NoneV)
    /\ top = NoTop
    /\ edits = <<>>
    /\ setup = <<>>
    /\ last = Observed("init", "", 0, TRUE, Quiet("none"))

NextTrie ==
    \/ \E e \in BindInputs : Bind(e)
    \/ \E e \in CopyInputs : Copy(e)
    \/ \E e \in UnbindInputs : Unbind(e)

SpecTrie == InitTrie /\ [][NextTrie]_vars

----------------------------------------------------------------------------
(* Claims about the tries (specification SpecTrie)                         *)

IsPrefix(s, t) == Len(s) <= Len(t) /\ SubSeq(t, 1, Len(s)) = s

\* The bindings of the subtree at value v: pairs of key sequence (from v)
\* and action; a dict without keys shows as "{}".
RECURSIVE Bindings(_, _, _)
Bindings(h, v, prefix) ==
    IF ~IsDict(v) THEN {<<prefix, v.a>>}
    ELSE IF DOMAIN h[v.id] = {} THEN {<<prefix, "{}">>}
    ELSE UNION {Bindings(h, h[v.id][k], Append(prefix, k)) : k \in DOMAIN h[v.id]}

\* What a key sequence resolves to in a context: the bindings at and below
\* it; none when the walk does not get there.
ResolvesTo(h, km, context, keys) ==
    IF km[context] = 0 THEN {}
    ELSE LET r == Resolve(h, Ref(km[context]), keys)
         IN IF r.err /= "none" THEN {} ELSE Bindings(h, r.val, <<>>)

\* The copies made so far that did not raise.
Aliases == {i \in 1..Len(edits) : edits[i].op = "copy" /\ edits[i].err = "none"}

\* The step is a bind or an unbind, in context c, of a sequence at or
\* below keys.
EditsAtOrBelow(c, keys) ==
    /\ Len(edits') = Len(edits) + 1
    /\ LET e == edits'[Len(edits')]
       IN /\ e.op \in {"bind", "unbind"}
          /\ e.context = c
          /\ IsPrefix(keys, parse_keybinding(e.text))

Unchanged(c, keys) ==
    ResolvesTo(heap', keymaps', c, keys) = ResolvesTo(heap, keymaps, c, keys)

\* C5 as claimed: after copy(context, source, target), a later bind or
\* unbind at or below source does not change what target, or a sequence
\* below it, resolves to, and one at or below target does not change what
\* source resolves to.
C5_Claimed ==
    [][\A i \in Aliases :
          LET c == edits[i].context
              s == parse_keybinding(edits[i].text)
              t == parse_keybinding(edits[i].target)
          IN /\ EditsAtOrBelow(c, s) => Unchanged(c, t)
             /\ EditsAtOrBelow(c, t) => Unchanged(c, s)]_vars

\* C5 as amended: the same, for a source and a target neither of which is a
\* prefix of the other.
C5_AliasIsolated ==
    [][\A i \in Aliases :
          LET c == edits[i].context
              s == parse_keybinding(edits[i].text)
              t == parse_keybinding(edits[i].target)
          IN (~IsPrefix(s, t) /\ ~IsPrefix(t, s)) =>
                /\ EditsAtOrBelow(c, s) => Unchanged(c, t)
                /\ EditsAtOrBelow(c, t) => Unchanged(c, s)]_vars

\* C5's case: "g" (a subtree holding g -> A) was copied to "x", then "gx"
\* was bound below the source, and "x" still resolves to g -> A alone.
C5_Witness ==
    /\ edits = << Done(BindEdit("root", TextGG, "A"), "none"),
                 Done(CopyEdit("root", TextG, TextX), "none"),
                 Done(BindEdit("root", TextGX, "B"), "none") >>
    /\ ResolvesTo(heap, keymaps, "root", <<Ord("x")>>) = {<< <<KeyG>>, "A" >>}
    /\ ResolvesTo(heap, keymaps, "root", <<KeyG>>) =
          {<< <<KeyG>>, "A" >>, << <<Ord("x")>>, "B" >>}

\* The step unbinds, in context c, the one leaf the context has, bound at a
\* sequence of two keys or more.
UnbindsOnlyLeaf(c) ==
    /\ Len(edits') = Len(edits) + 1
    /\ keymaps[c] /= 0
    /\ LET e == edits'[Len(edits')]
           keys == parse_keybinding(e.text)
       IN /\ e.op = "unbind" /\ e.context = c /\ Len(keys) >= 2
          /\ \E a \in {"A", "B"} :
                 Bindings(heap, Ref(keymaps[c]), <<>>) = {<<keys, a>>}

\* C6: after any bind, copy and unbind, no dict other than a context's root
\* is empty, and unbinding the only leaf under a prefix of several keys
\* leaves the context's root empty with no dict below it.
C6_NoEmptyNode ==
    /\ [](\A n \in DOMAIN heap :
              n \notin {keymaps[c] : c \in Contexts} => DOMAIN heap[n] /= {})
    /\ [][\A c \in Contexts :
              UnbindsOnlyLeaf(c) => heap'[keymaps'[c]] = EmptyNode]_vars

\* C6's case: "ggx" was bound and unbound, and the root is empty.
C6_Witness ==
    /\ edits = << Done(BindEdit("root", TextGGX, "A"), "none"),
                 Done(UnbindEdit("root", TextGGX), "none") >>
    /\ heap[keymaps["root"]] = EmptyNode
    /\ DOMAIN heap = {keymaps["root"]}

----------------------------------------------------------------------------
(* The KeyBuffer on its own: add and clear called in any order on a buffer *)
(* that a construction as above left on a context's trie                   *)

\* KeyBuffer.add(key)
Add(key) ==
    \E r \in {KeyBufferAdd(heap, kb, key)} :
       /\ Len(kb.keys) < MaxKeys
       /\ kb' = r.kb
       /\ heap' = Collect(heap, Roots(keymaps, r.kb))
       /\ last' = Observed("add", used_keymap, key, Cleared(heap, kb), Quiet(r.err))
       /\ UNCHANGED <<keymaps, used_keymap, top, edits, setup>>

\* KeyBuffer.clear()
Clear ==
    /\ kb' = NewKeyBuffer(heap, kb.keymap)
    /\ heap' = Collect(heap, Roots(keymaps, kb'))
    /\ last' = Observed("clear", used_keymap, 0, Cleared(heap, kb), Quiet("none"))
    /\ UNCHANGED <<keymaps, used_keymap, top, edits, setup>>

NextBuffer ==
    \/ \E k \in FeedKeys : Add(k)
    \/ Clear

SpecBuffer == Init /\ [][NextBuffer]_vars

----------------------------------------------------------------------------
(* Claims about the KeyBuffer (specification SpecBuffer)                   *)

\* C7 as claimed: in every state add and clear lead to, finished_parsing
\* holds exactly when a result is set or parse_error holds.
C7_Claimed ==
    kb.finished_parsing <=> (kb.result /= NoneV \/ kb.parse_error)

\* The pointer stands on a dict whose passive leaf is the result.
AtPassiveLeaf ==
    /\ IsDict(kb.pointer)
    /\ PASSIVE_ACTION \in DOMAIN heap[kb.pointer.id]
    /\ kb.result = heap[kb.pointer.id][PASSIVE_ACTION]

\* The last call was an add, to a buffer whose pointer stood on a leaf,
\* that raised.
AddRaisedAtLeaf ==
    last.op = "add" /\ last.exc = "TypeError" /\ ~IsDict(kb.pointer)

\* C7 as amended: parse_error implies finished_parsing; a result is set
\* without finished_parsing only while the pointer stands on a dict whose
\* passive leaf is that result; and finished_parsing holds without a
\* result and without parse_error only right after an add that raised on a
\* buffer already finished at a leaf.
C7_FinishedResultError ==
    /\ kb.parse_error => kb.finished_parsing
    /\ (kb.result /= NoneV /\ ~kb.finished_parsing) => AtPassiveLeaf
    /\ (kb.finished_parsing /\ kb.result = NoneV /\ ~kb.parse_error) => AddRaisedAtLeaf

\* C7's case: with "gg" and the passive "g<bg>" bound, g was added: the
\* passive leaf is the result and the parsing is not finished.
C7_Witness ==
    /\ last.op = "add" /\ kb.keys = <<KeyG>>
    /\ kb.result = Leaf("B") /\ ~kb.finished_parsing /\ ~kb.parse_error
    /\ KeyG \in DOMAIN heap[kb.pointer.id]

----------------------------------------------------------------------------
(* Top, the controller: its mode and size, the default bindings, the       *)
(* handling of one input unit and the loop                                 *)

KEY_ENTER == 343
KEY_MOUSE == 409
KEY_RESIZE == 410
ERR == -1

\* device_panel.full_height + process_panel.height, taken as fixed while
\* the loop runs
PanelLines == 3

\* 1 + device_panel.full_height + 1 + process_panel.height
MinLines == 1 + PanelLines + 1

\* What win.getmaxyx() may answer: (lines, columns).
TermSizes == {<<MinLines - 1, 79>>, <<MinLines, 79>>, <<MinLines + 1, 79>>}

NoSize == <<>>    \* termsize is None

Modes == {"auto", "full", "compact"}

\* The compact setter
SetCompact(t, value) ==
    IF t.compact /= value
    THEN [t EXCEPT !.need_redraw = TRUE, !.compact = value]
    ELSE t

\* update_size changed: the tree is marked dirty at every recompute.
update_size_always_dirty(t, size) ==
    LET t1 == SetCompact(t, IF t.mode = "auto" THEN size[1] < MinLines
                            ELSE t.mode = "compact")
        t2 == [t1 EXCEPT !.device_compact = t1.compact]
    IN [t2 EXCEPT !.termsize = size, !.need_redraw = TRUE]

\* update_size(), size being what getmaxyx() answers
update_size(t, size) ==
    LET t1 == SetCompact(t, IF t.mode = "auto" THEN size[1] < MinLines
                            ELSE t.mode = "compact")
        t2 == [t1 EXCEPT !.device_compact = t1.compact]
    IN IF t2.termsize /= size
       THEN [t2 EXCEPT !.termsize = size, !.need_redraw = TRUE]
       ELSE t2

\* SetMode changed: the mode is assigned and the size is not recomputed.
SetModeOnly(t, value, size) == [t EXCEPT !.mode = value]

\* The mode setter
SetMode(t, value, size) ==
    IF t.mode /= value THEN update_size([t EXCEPT !.mode = value], size) ELSE t

\* What the actions press has invoked did to the controller.
RECURSIVE Invoked(_, _, _)
Invoked(t, calls, size) ==
    IF calls = <<>> THEN t
    ELSE LET a == Head(calls).action.a
             t1 == IF a = "auto_mode" THEN SetMode(t, "auto", size)
                   ELSE IF a = "full_mode" THEN SetMode(t, "full", size)
                   ELSE IF a = "compact_mode" THEN SetMode(t, "compact", size)
                   ELSE t
         IN Invoked(t1, Tail(calls), size)

\* The edits of init_keybindings, in its order.
DefaultBindings ==
    << BindEdit("root", <<"q">>, "quit"),
       CopyEdit("root", <<"q">>, <<"Q">>),
       BindEdit("root", <<"a">>, "auto_mode"),
       BindEdit("root", <<"f">>, "full_mode"),
       BindEdit("root", <<"c">>, "compact_mode"),
       BindEdit("root", <<"<", "L", "e", "f", "t", ">">>, "host_left"),
       CopyEdit("root", <<"<", "L", "e", "f", "t", ">">>, <<"[">>),
       BindEdit("root", <<"<", "R", "i", "g", "h", "t", ">">>, "host_right"),
       CopyEdit("root", <<"<", "R", "i", "g", "h", "t", ">">>, <<"]">>),
       BindEdit("root", <<"<", "H", "o", "m", "e", ">">>, "host_begin"),
       CopyEdit("root", <<"<", "H", "o", "m", "e", ">">>, <<"<", "C", "-", "a", ">">>),
       CopyEdit("root", <<"<", "H", "o", "m", "e", ">">>, <<"^">>),
       BindEdit("root", <<"<", "E", "n", "d", ">">>, "host_end"),
       CopyEdit("root", <<"<", "E", "n", "d", ">">>, <<"<", "C", "-", "e", ">">>),
       CopyEdit("root", <<"<", "E", "n", "d", ">">>, <<"$">>),
       BindEdit("root", <<"<", "U", "p", ">">>, "select_up"),
       CopyEdit("root", <<"<", "U", "p", ">">>, <<"<", "S", "-", "T", "a", "b", ">">>),
       BindEdit("root", <<"<", "D", "o", "w", "n", ">">>, "select_down"),
       CopyEdit("root", <<"<", "D", "o", "w", "n", ">">>, <<"<", "T", "a", "b", ">">>),
       BindEdit("root", <<"<", "E", "s", "c", ">">>, "select_clear"),
       BindEdit("root", <<"T">>, "terminate"),
       BindEdit("root", <<"K">>, "kill"),
       BindEdit("root", <<"<", "C", "-", "c", ">">>, "interrupt"),
       CopyEdit("root", <<"<", "C", "-", "c", ">">>, <<"I">>) >>

\* init_keybindings() on the new KeyBuffer and KeyMaps: [heap, keymaps,
\* used_keymap, kb, err]
init_keybindings ==
    LET S == Run(Store(EmptyNode, [c \in Contexts |-> 0]), DefaultBindings)
        u == use_keymap(S.heap, S.keymaps, "", NewKeyBuffer(S.heap, NoneV), "root")
    IN [heap |-> u.heap, keymaps |-> S.keymaps, used_keymap |-> u.used_keymap,
        kb |-> u.kb, err |-> S.err]

\* handle_keys(*keys): [heap, used_keymap, kb, top, calls, exc], from key i
\* on; an exception ends it.  consumed: the positions of the keys the
\* focused containers take.
RECURSIVE handle_keys(_, _, _, _, _, _, _)
handle_keys(S, km, keys, i, consumed, exc, size) ==
    IF i > Len(keys) \/ S.exc /= "none" THEN S
    ELSE LET r == handle_key(S.heap, km, S.used_keymap, S.kb, keys[i],
                             i \in consumed, exc)
         IN handle_keys([heap |-> r.heap, used_keymap |-> r.used_keymap,
                         kb |-> r.kb, top |-> Invoked(S.top, r.calls, size),
                         calls |-> S.calls \o r.calls, exc |-> r.exc,
                         handled |-> Append(S.handled, keys[i])],
                        km, keys, i + 1, consumed, exc, size)

\* handle_mouse(): getmouse() and, when it decoded an event, the
\* containers' click; neither touches the controller or the buffer.
handle_mouse(S) == S

\* The containers' draw(): the dirty flag is cleared once painted.
DisplayableDraw(t) == [t EXCEPT !.need_redraw = FALSE]

\* The codes the look-ahead of handle_input captures: four more getch(),
\* each -1 when nothing has arrived.
Captured(reads) ==
    LET more == [i \in 1..4 |-> IF i + 1 <= Len(reads) THEN reads[i + 1] ELSE ERR]
    IN <<reads[1]>> \o SelectSeq(more, LAMBDA k : k /= ERR)

\* handle_input changed: an ERR at the first read is handed to handle_key,
\* which clears the buffer.
handle_input_clears_on_err(S, km, reads, consumed, exc, size) ==
    LET key == IF reads[1] = KEY_ENTER THEN LF ELSE reads[1]
        run == Captured(<<key>> \o Tail(reads))
        keys == IF Len(run) = 1 THEN Append(run, ERR)
                ELSE IF run[1] = ESC THEN [run EXCEPT ![1] = ALT_KEY]
                ELSE run
    IN IF key = ESC \/ (128 <= key /\ key < 256)
       THEN handle_keys(S, km, keys, 1, consumed, exc, size)
       ELSE IF key = KEY_MOUSE THEN handle_mouse(S)
       ELSE IF key = KEY_RESIZE THEN [S EXCEPT !.top = update_size(@, size)]
       ELSE handle_keys(S, km, <<key>>, 1, consumed, exc, size)

\* handle_input changed: the lead of every run of two codes or more is
\* replaced by ALT_KEY.
handle_input_alt_for_bytes(S, km, reads, consumed, exc, size) ==
    LET key == IF reads[1] = KEY_ENTER THEN LF ELSE reads[1]
        run == Captured(<<key>> \o Tail(reads))
        keys == IF Len(run) = 1 THEN Append(run, ERR)
                ELSE [run EXCEPT ![1] = ALT_KEY]
    IN IF reads[1] = ERR THEN S
       ELSE IF key = ESC \/ (128 <= key /\ key < 256)
       THEN handle_keys(S, km, keys, 1, consumed, exc, size)
       ELSE IF key = KEY_MOUSE THEN handle_mouse(S)
       ELSE IF key = KEY_RESIZE THEN [S EXCEPT !.top = update_size(@, size)]
       ELSE handle_keys(S, km, <<key>>, 1, consumed, exc, size)

\* handle_input changed: the resize code is handed to handle_keys like any
\* other key.
handle_input_resize_is_key(S, km, reads, consumed, exc, size) ==
    LET key == IF reads[1] = KEY_ENTER THEN LF ELSE reads[1]
        run == Captured(<<key>> \o Tail(reads))
        keys == IF Len(run) = 1 THEN Append(run, ERR)
                ELSE IF run[1] = ESC THEN [run EXCEPT ![1] = ALT_KEY]
                ELSE run
    IN IF reads[1] = ERR THEN S
       ELSE IF key = ESC \/ (128 <= key /\ key < 256)
       THEN handle_keys(S, km, keys, 1, consumed, exc, size)
       ELSE IF key = KEY_MOUSE THEN handle_mouse(S)
       ELSE handle_keys(S, km, <<key>>, 1, consumed, exc, size)

\* handle_input(): reads is what getch() answers, call after call.
handle_input(S, km, reads, consumed, exc, size) ==
    LET key == IF reads[1] = KEY_ENTER THEN LF ELSE reads[1]
        run == Captured(<<key>> \o Tail(reads))
        keys == IF Len(run) = 1 THEN Append(run, ERR)
                ELSE IF run[1] = ESC THEN [run EXCEPT ![1] = ALT_KEY]
                ELSE run
    IN IF reads[1] = ERR THEN S
       ELSE IF key = ESC \/ (128 <= key /\ key < 256)
       THEN handle_keys(S, km, keys, 1, consumed, exc, size)
       ELSE IF key = KEY_MOUSE THEN handle_mouse(S)
       ELSE IF key = KEY_RESIZE THEN [S EXCEPT !.top = update_size(@, size)]
       ELSE handle_keys(S, km, <<key>>, 1, consumed, exc, size)

\* redraw changed: the frame is drawn before it is poked.
redraw_draws_first == <<"draw", "poke", "finalize">>

\* redraw(): the calls it makes, in order.
redraw == <<"poke", "draw", "finalize">>

\* The body of the loop: redraw(), handle_input(), the pause when idle.
LoopBody == redraw \o <<"handle_input", "pace">>

----------------------------------------------------------------------------
(* The controller running: Top(devices, mode, win) with a window, then     *)
(* loop(), one step per call the loop body makes                           *)

\* What the terminal delivers to one handle_input().
InputUnits ==
    { <<ERR>>, <<Ord("q")>>, <<Ord("Q")>>, <<Ord("1")>>, <<Ord("a")>>,
      <<Ord("c")>>, <<Ord("f")>>, <<Ord("x")>>, <<Ord("T")>>, <<KEY_ENTER>>,
      <<KEY_MOUSE>>, <<KEY_RESIZE>>, <<ESC>>, <<ESC, Ord("q")>>,
      <<ESC, ERR, Ord("a")>>, <<200>>, <<200, Ord("q")>>,
      <<ESC, Ord("x"), Ord("x"), Ord("x"), Ord("x"), Ord("q")>> }

ObservedInput(op, key, consumed, fresh, r) ==
    [op |-> op, context |-> "root", key |-> key, consumed |-> consumed,
     fresh |-> fresh, calls |-> r.calls, ret |-> "none", exc |-> r.exc,
     handled |-> IF "handled" \in DOMAIN r THEN r.handled ELSE <<>>]

\* The loop goes on to its next call; after the last, a new iteration.
Advance(t, call) ==
    IF t.at = Len(LoopBody)
    THEN [t EXCEPT !.at = 1, !.frame = <<>>]
    ELSE [t EXCEPT !.at = @ + 1, !.frame = Append(@, call)]

Running(call) == top.pc = "running" /\ LoopBody[top.at] = call

\* loop(), up to the first call of its body
Loop ==
    /\ top.pc = "off"
    /\ top' = [top EXCEPT !.pc = "running", !.at = 1]
    /\ last' = ObservedInput("loop", <<>>, {}, Cleared(heap, kb), Quiet("none"))
    /\ UNCHANGED <<heap, keymaps, used_keymap, kb, edits, setup>>

\* poke(): the containers' poke, then update_size() unless the size is
\* known and the heights happen to differ from height by one.
Poke(size, known) ==
    /\ Running("poke")
    /\ top' = Advance(IF top.termsize = NoSize \/ ~known
                      THEN update_size(top, size) ELSE top, "poke")
    /\ last' = ObservedInput("poke", <<>>, {}, Cleared(heap, kb), Quiet("none"))
    /\ UNCHANGED <<heap, keymaps, used_keymap, kb, edits, setup>>

\* draw(): paints when need_redraw, then the containers draw
Draw ==
    /\ Running("draw")
    /\ top' = Advance(DisplayableDraw(top), "draw")
    /\ last' = ObservedInput("draw", <<>>, {}, Cleared(heap, kb), Quiet("none"))
    /\ UNCHANGED <<heap, keymaps, used_keymap, kb, edits, setup>>

\* finalize(): the containers' finalize, then win.refresh()
Finalize ==
    /\ Running("finalize")
    /\ top' = Advance(top, "finalize")
    /\ last' = ObservedInput("finalize", <<>>, {}, Cleared(heap, kb), Quiet("none"))
    /\ UNCHANGED <<heap, keymaps, used_keymap, kb, edits, setup>>

\* handle_input(); BreakLoop ends the loop, any other exception leaves it
HandleInput(reads, consumed, exc, size) ==
    \E r \in {handle_input([heap |-> heap, used_keymap |-> used_keymap, kb |-> kb,
                            top |-> top, calls |-> <<>>, exc |-> "none",
                            handled |-> <<>>],
                           keymaps, reads, consumed, exc, size)} :
       /\ Running("handle_input")
       /\ Len(kb.keys) < MaxKeys
       /\ kb' = r.kb
       /\ used_keymap' = r.used_keymap
       /\ heap' = Collect(r.heap, Roots(keymaps, r.kb))
       /\ top' = IF r.exc = "none" THEN Advance(r.top, "handle_input")
                 ELSE [r.top EXCEPT !.pc = IF r.exc = "BreakLoop" THEN "done"
                                           ELSE "raised",
                                    !.frame = Append(@, "handle_input")]
       /\ last' = ObservedInput("handle_input", reads, consumed, Cleared(heap, kb), r)
       /\ UNCHANGED <<keymaps, edits, setup>>

\* The pause of an idle loop: sleep(0.25) when the last input is more than
\* a second old.
Pace(idle) ==
    /\ Running("pace")
    /\ top' = Advance(top, "pace")
    /\ last' = ObservedInput(IF idle THEN "sleep" ELSE "pace", <<>>, {},
                             Cleared(heap, kb), Quiet("none"))
    /\ UNCHANGED <<heap, keymaps, used_keymap, kb, edits, setup>>

\* Top(devices, mode, win) with a window
InitTop ==
    \E mode \in Modes, dirty \in BOOLEAN, K \in {init_keybindings} :
       /\ K.err = "none"
       /\ heap = Collect(K.heap, Roots(K.keymaps, K.kb))
       /\ keymaps = K.keymaps
       /\ used_keymap = K.used_keymap
       /\ kb = K.kb
       /\ top = [pc |-> "off", at |-> 1, frame |-> <<>>, mode |-> mode,
                 compact |-> (mode = "compact"),
                 device_compact |-> (mode = "compact"), termsize |-> NoSize,
                 need_redraw |-> dirty]
       /\ edits = <<>>
       /\ setup = DefaultBindings
       /\ last = ObservedInput("init", <<>>, {}, TRUE, Quiet("none"))

NextTop ==
    \/ Loop
    \/ \E size \in TermSizes, known \in BOOLEAN : Poke(size, known)
    \/ Draw
    \/ Finalize
    \/ \E reads \in InputUnits, consumed \in SUBSET (1..2), exc \in Excs,
          size \in TermSizes : HandleInput(reads, consumed, exc, size)
    \/ \E idle \in BOOLEAN : Pace(idle)

SpecTop == InitTop /\ [][NextTop]_vars

----------------------------------------------------------------------------
(* Claims about the loop (specification SpecTop)                           *)

FrameOrder == <<"poke", "draw", "finalize", "handle_input">>

\* C9: in every iteration the calls made so far are poke, draw, finalize,
\* handle_input in this order, each at most once: draw runs with poke
\* alone done, finalize with poke and draw done, and input is handled with
\* exactly poke, draw, finalize done.
C9_FrameOrder ==
    /\ [](IsPrefix(top.frame, FrameOrder))
    /\ [][/\ last'.op = "draw" => top.frame = <<"poke">>
          /\ last'.op = "finalize" => top.frame = <<"poke", "draw">>
          /\ last'.op = "handle_input" => top.frame = <<"poke", "draw", "finalize">>]_vars

\* C9's case: an iteration has poked, drawn, finalized and handled its
\* input, a quantifier digit pending from the iteration before.
C9_Witness ==
    /\ top.pc = "running" /\ top.frame = FrameOrder
    /\ last.op = "handle_input" /\ ~last.fresh

QuitAt(calls, i) == calls[i].action = Leaf("quit")

\* The step hands q or Q, not taken by a focused container, to the root
\* trie.
QuitKeyStep ==
    /\ top.pc = "running"
    /\ last'.op = "handle_input"
    /\ last'.key \in {<<Ord("q")>>, <<Ord("Q")>>}
    /\ 1 \notin last'.consumed

\* C10: with the default bindings, q or Q reaching the root trie, after no
\* digit or after digits, invokes quit (with the digits as quantifier); an
\* input that invokes quit leaves handle_input with BreakLoop, nothing is
\* invoked after quit, and the loop is done; once done the loop makes no
\* call again.
C10_QuitEndsLoop ==
    /\ [][QuitKeyStep =>
             /\ Len(last'.calls) = 1 /\ QuitAt(last'.calls, 1)
             /\ last'.calls[1].quantifier =
                    (IF kb.keys = <<>> THEN NoQuantifier ELSE Base10(kb.keys))]_vars
    /\ [][\A i \in 1..Len(last'.calls) :
             (last'.op = "handle_input" /\ QuitAt(last'.calls, i)) =>
                 /\ i = Len(last'.calls)
                 /\ last'.exc = "BreakLoop"
                 /\ top'.pc = "done"
                 /\ top'.frame = Append(top.frame, "handle_input")]_vars
    /\ [][top.pc = "done" => (top' = top /\ kb' = kb /\ last' = last)]_vars

\* C10's case: 1 and then q were typed, quit was invoked with quantifier 1
\* and the loop is done.
C10_Witness ==
    /\ top.pc = "done" /\ last.op = "handle_input" /\ last.key = <<Ord("q")>>
    /\ Len(last.calls) = 1 /\ QuitAt(last.calls, 1) /\ last.calls[1].quantifier = 1

----------------------------------------------------------------------------
(* Claims about the handling of one input unit (specification SpecTop)     *)

\* The step is a handle_input() whose first getch() answers ERR.
ErrReadStep == last'.op = "handle_input" /\ last'.key[1] = ERR

\* C11 as claimed: when the read of an iteration answers a negative code,
\* the buffer is cleared to its initial state and the loop goes on.
C11_Claimed ==
    [][ErrReadStep => (Cleared(heap', kb') /\ top'.pc = "running")]_vars

\* The step is a handle_input() that read ESC or a byte in 128..255, with
\* nothing after it, and raised nothing.
LoneLeadStep ==
    /\ last'.op = "handle_input" /\ last'.exc = "none"
    /\ Len(Captured(last'.key)) = 1
    /\ (last'.key[1] = ESC \/ (128 <= last'.key[1] /\ last'.key[1] < 256))

\* C11 as amended: when the read of an iteration answers ERR, it is no
\* input: the buffer, the active context and the controller's mode and
\* size are left as they are (a pending sequence or quantifier is kept),
\* nothing is invoked and the loop goes on.  The buffer is cleared by the
\* negative code handle_key gets after a lone ESC or byte in 128..255.
C11_ErrIsNoInput ==
    /\ [][ErrReadStep =>
             /\ kb' = kb /\ used_keymap' = used_keymap /\ heap' = heap
             /\ last'.calls = <<>> /\ last'.exc = "none"
             /\ top'.pc = "running"
             /\ top' = Advance(top, "handle_input")]_vars
    /\ [][LoneLeadStep => Cleared(heap', kb')]_vars

\* C11's case: a digit was pending when the read answered ERR, and it is
\* still pending.
C11_Witness ==
    /\ last.op = "handle_input" /\ last.key = <<ERR>>
    /\ kb.keys = <<Ord("1")>> /\ kb.quantifier = 1 /\ top.pc = "running"

----------------------------------------------------------------------------
(* Claims about failing edits of the tries (specification SpecTrie)        *)

\* The sequences a context binds, each with its action; a context that
\* does not exist binds nothing, as an empty one.
Content(h, km, context) ==
    IF km[context] = 0 THEN {}
    ELSE {b \in Bindings(h, Ref(km[context]), <<>>) : b[2] /= "{}"}

\* Every context binds after the step what it bound before.
SameTries == \A c \in Contexts : Content(heap', keymaps', c) = Content(heap, keymaps, c)

\* The step is the edit op of a sequence that resolves to nothing in its
\* context: a key of it is missing, or it goes on past a leaf.
EditOfUnresolved(op) ==
    /\ Len(edits') = Len(edits) + 1
    /\ LET e == edits'[Len(edits')]
       IN /\ e.op = op
          /\ ResolvesTo(heap, keymaps, e.context, parse_keybinding(e.text)) = {}

\* C12: copy(context, source, target) of a source that resolves to nothing
\* (a key is missing at some depth, or the walk must go on past a leaf)
\* raises the KeyError that says the binding was not found, and leaves
\* what every context binds as it was.
C12_Claimed ==
    [][EditOfUnresolved("copy") =>
          (edits'[Len(edits')].err = "KeyError" /\ SameTries)]_vars

\* C13: unbind(context, S) of a sequence that resolves to nothing (a key
\* is missing at some depth, or S goes on past a leaf) raises nothing and
\* leaves what every context binds as it was.
C13_Claimed ==
    [][EditOfUnresolved("unbind") =>
          (edits'[Len(edits')].err = "none" /\ SameTries)]_vars

----------------------------------------------------------------------------
(* Claims about the mode and the size (specification SpecTop)              *)

\* The step is a handle_input() that read the resize code.
ResizeStep == last'.op = "handle_input" /\ last'.key = <<KEY_RESIZE>>

\* The step recomputes the size (a poke or a resize) and finds the
\* terminal size and the mode of the recompute before.
SameSizeRecompute ==
    /\ (ResizeStep \/ last'.op = "poke")
    /\ top.termsize /= NoSize
    /\ top'.termsize = top.termsize
    /\ top'.mode = top.mode

\* C14: in mode auto with compact false, a resize to fewer lines than
\* 1 + device_panel.full_height + 1 + process_panel.height sets compact
\* and need_redraw; and a recompute that finds the same terminal size and
\* mode changes neither compact nor need_redraw.
C14_ResizeMarksOnce ==
    /\ [][(ResizeStep /\ top.mode = "auto" /\ ~top.compact
              /\ top'.termsize[1] < MinLines) =>
             (top'.compact /\ top'.device_compact /\ top'.need_redraw)]_vars
    /\ [][SameSizeRecompute =>
             (top'.need_redraw = top.need_redraw /\ top'.compact = top.compact)]_vars

\* C14's case: in mode auto a resize to a terminal of fewer lines than the
\* panels need was handled: compact and need_redraw are set.
C14_Witness ==
    /\ last.op = "handle_input" /\ last.key = <<KEY_RESIZE>>
    /\ top.mode = "auto" /\ top.termsize = <<MinLines - 1, 79>>
    /\ top.compact /\ top.need_redraw

\* C15: in every state mode full implies not compact and mode compact
\* implies compact, whatever the terminal size; the device panel's compact
\* flag is the controller's; and every change of compact sets need_redraw.
C15_ModeDecidesCompact ==
    /\ [](/\ top.mode = "full" => ~top.compact
          /\ top.mode = "compact" => top.compact
          /\ top.device_compact = top.compact)
    /\ [][top'.compact /= top.compact => top'.need_redraw]_vars

\* C15's case: on a terminal with lines to spare, c was typed and the
\* mode and the layout are compact.
C15_Witness ==
    /\ last.op = "handle_input" /\ last.key = <<Ord("c")>>
    /\ Acts(last.calls) = <<"compact_mode">>
    /\ top.termsize = <<MinLines + 1, 79>>
    /\ top.mode = "compact" /\ top.compact /\ top.need_redraw

----------------------------------------------------------------------------
(* The lexer and its reverse as steps: a text is parsed, the keys are made *)
(* a text again, and that text is parsed (specification SpecLexer)         *)

MaxPieces == 3

Pieces == { <<"a">>, <<"1">>, <<" ">>, <<"<">>, <<">">>,
            <<"<", "l", "t", ">">>, <<"<", "g", "t", ">">>,
            <<"<", "c", "r", ">">>, <<"<", "A", "-", "x", ">">>,
            <<"<", "a", "n", "y", ">">> }

RECURSIVE Joined(_)
Joined(n) ==
    IF n = 0 THEN {<<>>}
    ELSE Joined(n - 1) \cup {t \o p : t \in Joined(n - 1), p \in Pieces}

\* The texts of at most MaxPieces pieces
LexTexts == Joined(MaxPieces)

Lexing(op, text, keys, shown, again) ==
    [op |-> op, text |-> text, keys |-> keys, shown |-> shown, again |-> again]

\* keys = tuple(parse_keybinding(text))
ParseText ==
    /\ last.op = "text"
    /\ last' = [last EXCEPT !.op = "parsed", !.keys = parse_keybinding(last.text)]
    /\ UNCHANGED <<heap, keymaps, used_keymap, kb, top, edits, setup>>

\* shown = construct_keybinding(keys)
Construct ==
    /\ last.op = "parsed"
    /\ last' = [last EXCEPT !.op = "shown", !.shown = construct_keybinding(last.keys)]
    /\ UNCHANGED <<heap, keymaps, used_keymap, kb, top, edits, setup>>

\* again = tuple(parse_keybinding(shown))
ParseShown ==
    /\ last.op = "shown"
    /\ last' = [last EXCEPT !.op = "again", !.again = parse_keybinding(last.shown)]
    /\ UNCHANGED <<heap, keymaps, used_keymap, kb, top, edits, setup>>

InitLexer ==
    /\ heap = EmptyNode
    /\ keymaps = [c \in Contexts |-> 0]
    /\ used_keymap = ""
    /\ kb = NewKeyBuffer(EmptyNode, NoneV)
    /\ top = NoTop
    /\ edits = <<>>
    /\ setup = <<>>
    /\ \E text \in LexTexts : last = Lexing("text", text, <<>>, <<>>, <<>>)

NextLexer ==
    \/ ParseText
    \/ Construct
    \/ ParseShown

SpecLexer == InitLexer /\ [][NextLexer]_vars

\* The text has been parsed and made a text again.
Shown == last.op \in {"shown", "again"}

NoBrackets(text) == \A i \in 1..Len(text) : text[i] \notin {"<", ">"}

\* C16 as claimed: a text with neither < nor > comes back from
\* construct_keybinding(parse_keybinding(text)) as it was.
C16_Claimed == (Shown /\ NoBrackets(last.text)) => last.shown = last.text

\* The characters with the codes 33..126
Graphic(text) == \A i \in 1..Len(text) : Ord(text[i]) \in 33..126

\* C16: a text of characters with codes 33..126 and neither < nor > comes
\* back from construct_keybinding(parse_keybinding(text)) as it was, and a
\* space comes back as <space>.
C16_GraphicRoundTrip ==
    /\ (Shown /\ NoBrackets(last.text) /\ Graphic(last.text))
           => last.shown = last.text
    /\ (Shown /\ last.text = <<" ">>)
           => last.shown = <<"<", "s", "p", "a", "c", "e", ">">>

\* C16's case: the text a1a came back as a1a.
C16_Witness ==
    /\ last.op = "shown" /\ last.text = <<"a", "1", "a">>
    /\ last.keys = <<97, 49, 97>> /\ last.shown = last.text

\* C17 as claimed: parsing the text made of the parsed keys gives the
\* parsed keys.
C17_Claimed == last.op = "again" => last.again = last.keys

----------------------------------------------------------------------------
(* Claims about the look-ahead of handle_input (specification SpecTop)     *)

\* The codes other than ERR among the four reads after the first
Arrived(reads) ==
    SelectSeq([i \in 1..4 |-> IF i + 1 <= Len(reads) THEN reads[i + 1] ELSE ERR],
              LAMBDA k : k /= ERR)

\* The step is a handle_input() whose first read is ESC or in 128..255.
LeadStep ==
    /\ last'.op = "handle_input"
    /\ (last'.key[1] = ESC \/ (128 <= last'.key[1] /\ last'.key[1] < 256))

\* What C18 says is handed to handle_key, key after key
Dispatch(reads) ==
    IF Arrived(reads) = <<>> THEN <<reads[1], ERR>>
    ELSE IF reads[1] = ESC THEN <<ALT_KEY>> \o Arrived(reads)
    ELSE <<reads[1]>> \o Arrived(reads)

\* C18: after a first code ESC or in 128..255 at most four more codes are
\* taken; a lead with nothing after it is handed on as it is; an ESC with a
\* code after it is handed on as ALT_KEY, any other lead as it is; the
\* codes are handed on in the order they arrived (up to the key whose
\* action raised); and ESC q is handed on as the keys of '<A-q>'.
C18_LookAhead ==
    /\ [][LeadStep =>
             /\ Len(last'.handled) <= 5
             /\ IsPrefix(last'.handled, Dispatch(last'.key))
             /\ last'.exc = "none" => last'.handled = Dispatch(last'.key)]_vars
    /\ [][(LeadStep /\ last'.key = <<ESC, Ord("q")>>) =>
             last'.handled = parse_keybinding(<<"<", "A", "-", "q", ">">>)]_vars

\* C18's case: ESC, four x and a q were there to read; ALT_KEY and the four
\* x were handed on and the q was not.
C18_Witness ==
    /\ last.op = "handle_input"
    /\ last.key = <<ESC, Ord("x"), Ord("x"), Ord("x"), Ord("x"), Ord("q")>>
    /\ last.handled = <<ALT_KEY, Ord("x"), Ord("x"), Ord("x"), Ord("x")>>
    /\ top.pc = "running"

----------------------------------------------------------------------------
(* The KeyBuffer over bindings with <any> (specification SpecAny)          *)

TextGAny == <<"g", "<", "a", "n", "y", ">">>
TextGEsc == <<"g", "<", "e", "s", "c", ">">>
TextAnyG == <<"<", "a", "n", "y", ">", "g">>

AnyEdits ==
    {BindEdit("root", b[1], b[2]) :
        b \in { <<TextGAny, "A">>, <<TextGX, "B">>, <<TextGEsc, "B">>,
                <<TextAnyG, "A">> }}

AnyScripts == UNION {[1..n -> AnyEdits] : n \in 0..MaxOps}

AnyKeys == {Ord("g"), Ord("x"), Ord("1"), ESC}

InitAny ==
    /\ \E script \in AnyScripts : Constructed(script, "root")
    /\ top = NoTop

NextAny ==
    \/ \E k \in AnyKeys : Add(k)
    \/ Clear

SpecAny == InitAny /\ [][NextAny]_vars

\* The step is an add(key) that takes the key as a symbol, not as a digit
\* of the quantifier, with the pointer on a dict.
SymbolStep ==
    /\ last'.op = "add"
    /\ ~(~kb.finished_parsing_quantifier /\ last'.key \in DIGITS)
    /\ IsDict(kb.pointer)

\* C19: a symbol taken at a dict moves the pointer to the child of the
\* symbol when there is one; to the ANY child, with the symbol appended to
\* wildcards, exactly when there is no child of the symbol, there is an
\* ANY child and the symbol is not ESC; and otherwise the pointer stays
\* and parse_error and finished_parsing are set.
C19_ExactBeforeAny ==
    [][SymbolStep =>
         LET node == heap[kb.pointer.id]
             key == last'.key
             exact == key \in DOMAIN node
             wild == ~exact /\ ANYKEY \in DOMAIN node /\ key /= ESC
         IN /\ exact => kb'.pointer = node[key]
            /\ wild => kb'.pointer = node[ANYKEY]
            /\ kb'.wildcards = IF wild THEN Append(kb.wildcards, key)
                               ELSE kb.wildcards
            /\ (~exact /\ ~wild) => /\ kb'.pointer = kb.pointer
                                    /\ kb'.parse_error
                                    /\ kb'.finished_parsing]_vars

\* C19's case: with "g<any>" bound to A and "gx" to B, g and x were added:
\* the result is B and no wildcard was logged.
C19_Witness ==
    /\ setup = <<BindEdit("root", TextGAny, "A"), BindEdit("root", TextGX, "B")>>
    /\ last.op = "add" /\ kb.keys = <<KeyG, Ord("x")>>
    /\ kb.result = Leaf("B") /\ kb.wildcards = <<>> /\ kb.finished_parsing

----------------------------------------------------------------------------
(* Claims about the passive leaf (specification SpecBuffer)                *)

\* Where a symbol taken at the dict the pointer is on leads: the child of
\* the symbol, or the ANY child.
Target(h, b, key) ==
    LET node == h[b.pointer.id]
    IN IF key \in DOMAIN node THEN node[key]
       ELSE IF ANYKEY \in DOMAIN node /\ key \notin exclude_from_anykey
       THEN node[ANYKEY]
       ELSE NoneV

\* C20: a symbol that moves the pointer to a dict with a passive leaf
\* leaves the pointer there, sets the result to the passive leaf and
\* leaves finished_parsing as it was (false, in a buffer that had not
\* finished); a symbol that moves the pointer to a leaf
\* sets the result to the leaf and sets finished_parsing, also when the
\* step before exposed a passive leaf.
C20_PassiveThenLonger ==
    [][SymbolStep =>
         LET to == Target(heap, kb, last'.key)
         IN /\ (IsDict(to) /\ PASSIVE_ACTION \in DOMAIN heap[to.id]) =>
                   /\ kb'.pointer = to
                   /\ kb'.result = heap[to.id][PASSIVE_ACTION]
                   /\ kb'.finished_parsing = kb.finished_parsing
            /\ to.t = "leaf" => (kb'.result = to /\ kb'.finished_parsing)
            /\ (AtPassiveLeaf /\ ~kb.finished_parsing /\ to.t = "leaf") =>
                   (kb'.result = to /\ kb'.finished_parsing /\ ~kb'.parse_error)]_vars

\* C20's case: with the passive "g<bg>" bound to B and "gg" to A, g and g
\* were added: the result is A and the parsing is finished.
C20_Witness ==
    /\ setup = <<BindEdit("root", TextGBg, "B"), BindEdit("root", TextGG, "A")>>
    /\ last.op = "add" /\ kb.keys = <<KeyG, KeyG>>
    /\ kb.result = Leaf("A") /\ kb.finished_parsing /\ ~kb.parse_error

----------------------------------------------------------------------------
(* Claims about what unbind leaves alone (specification SpecTrie)          *)

\* The step is an unbind.
UnbindStep == Len(edits') = Len(edits) + 1 /\ edits'[Len(edits')].op = "unbind"

\* C21 as claimed: unbind(context, S) keeps every binding of every context
\* other than the one at exactly S in context, the bindings at sequences
\* that S is a proper prefix of included.
C21_Claimed ==
    [][UnbindStep =>
         LET e == edits'[Len(edits')]
             keys == parse_keybinding(e.text)
         IN \A c \in Contexts : \A b \in Content(heap, keymaps, c) :
               (c /= e.context \/ b[1] /= keys) => b \in Content(heap', keymaps', c)]_vars

\* C21 as amended: an unbind(context, S) that does not raise removes the
\* bindings at S and at every sequence S is a prefix of, and keeps every
\* other binding of the context; it adds none and leaves the other
\* contexts as they are; one that raises leaves every context as it is.
C21_UnbindRemovesSubtree ==
    [][UnbindStep =>
         LET e == edits'[Len(edits')]
             keys == parse_keybinding(e.text)
         IN IF e.err /= "none" THEN SameTries
            ELSE \A c \in Contexts :
                    Content(heap', keymaps', c) =
                       {b \in Content(heap, keymaps, c) :
                           c /= e.context \/ ~IsPrefix(keys, b[1])}]_vars

\* C21's case: "gg" and "x" were bound and "g" was unbound: of root's
\* bindings "x" alone is left.
C21_Witness ==
    /\ edits /= <<>>
    /\ edits[Len(edits)] = Done(UnbindEdit("root", TextG), "none")
    /\ \E i \in 1..Len(edits) : edits[i] = Done(BindEdit("root", TextGG, "A"), "none")
    /\ \E i \in 1..Len(edits) : edits[i] = Done(BindEdit("root", TextX, "A"), "none")
    /\ Content(heap, keymaps, "root") = {<< <<Ord("x")>>, "A" >>}

----------------------------------------------------------------------------
(* Claims about the mouse and the resize events (specification SpecTop)    *)

\* The step is a handle_input() that read the mouse or the resize code.
EventStep ==
    /\ last'.op = "handle_input"
    /\ last'.key \in {<<KEY_MOUSE>>, <<KEY_RESIZE>>}

\* C22: handling a mouse or a resize event hands no key to handle_key,
\* invokes nothing and leaves the buffer (keys, quantifier, pointer, result
\* and flags), the trie and the keymap in use as they were, and the loop
\* goes on.
C22_EventsLeaveBuffer ==
    [][EventStep => /\ kb' = kb
                    /\ heap' = heap
                    /\ used_keymap' = used_keymap
                    /\ last'.handled = <<>>
                    /\ last'.calls = <<>>
                    /\ last'.exc = "none"
                    /\ top'.pc = "running"]_vars

\* C22's case: with the digit 1 pending as the quantifier a resize was
\* handled, and the digit is pending still.
C22_Witness ==
    /\ last.op = "handle_input" /\ last.key = <<KEY_RESIZE>>
    /\ kb.keys = <<Ord("1")>> /\ kb.quantifier = 1
    /\ ~kb.finished_parsing_quantifier /\ ~kb.finished_parsing
    /\ top.termsize /= NoSize

====
